---- MODULE Spec2Model ----
\* A model of src/src/raw.rs: the arena-backed XML node graph (Storage and
\* Connections), its re-parenting operations, sibling iteration and namespace
\* resolution.
EXTENDS Integers, Sequences, FiniteSets, TLC

\* ---------------------------------------------------------------- bounds
\* Capacity of each arena of Storage (the number of create_* calls modelled).
NumRoots == 1
NumElements == 2
NumTexts == 1
NumComments == 1
NumPIs == 1
NumAttributes == 2
\* Capacity of the element and attribute arenas where every Storage operation
\* is exercised.
StorageNodes == 1
\* Capacity of the attribute arena where the frame of the appends is checked.
NumLinkedAttributes == 1

\* ---------------------------------------------------------------- values
\* Option<T>: None is the empty sequence, Some(x) the one-element sequence.
None == <<>>
Some(x) == <<x>>

\* Storage::intern: the interned string, equal iff the source bytes are equal.
intern(s) == [interned |-> s]
\* InternedString::as_slice / Deref: the bytes behind the interned string.
as_slice(i) == i.interned

\* super::QName: (optional namespace URI, local part), both plain strings.
QName(ns, local) == [namespace_uri |-> ns, local_part |-> local]

\* Storage::intern_qname
intern_qname(q) ==
    [namespace_uri |-> IF q.namespace_uri = None THEN None
                       ELSE Some(intern(q.namespace_uri[1])),
     local_part |-> intern(q.local_part)]

\* InternedQName::as_qname
as_qname(n) ==
    [namespace_uri |-> IF n.namespace_uri = None THEN None
                       ELSE Some(as_slice(n.namespace_uri[1])),
     local_part |-> as_slice(n.local_part)]

XML_NS_PREFIX == "xml"
XML_NS_URI == "http://www.w3.org/XML/1998/namespace"

\* Inputs the callers pass.
ElementNames == {QName(None, "a")}
AttributeNames == {QName(None, "x"), QName(Some("U1"), "x")}
AttributeValues == {"1"}
TextValues == {"t"}
PITargets == {"target"}
PIValues == {None}
Prefixes == {XML_NS_PREFIX, "p", "q"}
URIs == {"U1", "U2"}

\* The values the setters are called with.
NewElementNames == {QName(Some("U1"), "b")}
NewPreferredPrefixes == {None, Some("p")}
NewTextValues == {"u"}
NewPITargets == {"other"}
NewPIValues == {None, Some("v")}

\* enum ChildOfRoot { Element(*mut Element), Comment(..), ProcessingInstruction(..) }
ChildOfRoot(variant, n) == [enum |-> "ChildOfRoot", variant |-> variant, ptr |-> n]
\* enum ChildOfElement { Element, Text, Comment, ProcessingInstruction }
ChildOfElement(variant, n) == [enum |-> "ChildOfElement", variant |-> variant, ptr |-> n]
\* enum ParentOfChild { Root(*mut Root), Element(*mut Element) }
ParentOfChild(variant, p) == [variant |-> variant, ptr |-> p]

\* ---------------------------------------------------------------- state
\* The arenas of Storage. A pointer into an arena is the index of the
\* allocation; nodes are never moved or freed.
VARIABLES roots, elements, attributes, texts, comments, processing_instructions

vars == <<roots, elements, attributes, texts, comments, processing_instructions>>

\* The node memory as one value, threaded through the statements of an operation.
heap ==
    [roots |-> roots, elements |-> elements, attributes |-> attributes,
     texts |-> texts, comments |-> comments,
     processing_instructions |-> processing_instructions]

\* The node memory after an operation returns.
Commit(h) ==
    /\ roots' = h.roots
    /\ elements' = h.elements
    /\ attributes' = h.attributes
    /\ texts' = h.texts
    /\ comments' = h.comments
    /\ processing_instructions' = h.processing_instructions

\* Storage::new
Init ==
    /\ roots = <<>>
    /\ elements = <<>>
    /\ attributes = <<>>
    /\ texts = <<>>
    /\ comments = <<>>
    /\ processing_instructions = <<>>

\* HashMap::new
HashMap_new == [k \in {} |-> k]

\* Vec::retain(keep) is SelectSeq(v, keep) throughout.

\* ---------------------------------------------------------------- handles
RootPtrs == 1..Len(roots)
ElementPtrs == 1..Len(elements)
AttributePtrs == 1..Len(attributes)
TextPtrs == 1..Len(texts)
CommentPtrs == 1..Len(comments)
PIPtrs == 1..Len(processing_instructions)

\* ToChildOfRoot::to_child_of_root over every allocated handle a caller can pass.
ChildOfRootArgs ==
    {ChildOfRoot("Element", n) : n \in ElementPtrs}
    \cup {ChildOfRoot("Comment", n) : n \in CommentPtrs}
    \cup {ChildOfRoot("ProcessingInstruction", n) : n \in PIPtrs}

\* ToChildOfElement::to_child_of_element over every allocated handle.
ChildOfElementArgs ==
    {ChildOfElement("Element", n) : n \in ElementPtrs}
    \cup {ChildOfElement("Text", n) : n \in TextPtrs}
    \cup {ChildOfElement("Comment", n) : n \in CommentPtrs}
    \cup {ChildOfElement("ProcessingInstruction", n) : n \in PIPtrs}

\* ChildOfRoot::is_element
is_element(c) == c.variant = "Element"

\* to_child_of_element whose Comment arm builds the ProcessingInstruction variant.
to_child_of_element_comment_as_pi(c) ==
    CASE c.variant = "Element" -> ChildOfElement("Element", c.ptr)
      [] c.variant = "Comment" -> ChildOfElement("ProcessingInstruction", c.ptr)
      [] c.variant = "ProcessingInstruction" -> ChildOfElement("ProcessingInstruction", c.ptr)

\* ChildOfRoot::to_child_of_element
to_child_of_element(c) ==
    CASE c.variant = "Element" -> ChildOfElement("Element", c.ptr)
      [] c.variant = "Comment" -> ChildOfElement("Comment", c.ptr)
      [] c.variant = "ProcessingInstruction" -> ChildOfElement("ProcessingInstruction", c.ptr)

\* The parent field of the node behind a child handle (n.parent).
parent_field(h, c) ==
    CASE c.variant = "Element" -> h.elements[c.ptr].parent
      [] c.variant = "Text" -> h.texts[c.ptr].parent
      [] c.variant = "Comment" -> h.comments[c.ptr].parent
      [] c.variant = "ProcessingInstruction" -> h.processing_instructions[c.ptr].parent

\* *parent_field = v
set_parent_field(h, c, v) ==
    CASE c.variant = "Element" -> [h EXCEPT !.elements[c.ptr].parent = v]
      [] c.variant = "Text" -> [h EXCEPT !.texts[c.ptr].parent = v]
      [] c.variant = "Comment" -> [h EXCEPT !.comments[c.ptr].parent = v]
      [] c.variant = "ProcessingInstruction" ->
            [h EXCEPT !.processing_instructions[c.ptr].parent = v]

\* replace_parent without the removal from the previous parent's list.
replace_parent_keeps_old_entry(h, child, parent) ==
    set_parent_field(h, child, Some(parent))

\* replace_parent that cuts the previous parent's list at the child: the
\* child and the siblings after it are dropped.
replace_parent_truncates(h, child, parent) ==
    LET field == parent_field(h, child)
        Cut(list, c) ==
            LET hits == {i \in DOMAIN list : list[i] = c}
            IN IF hits = {} THEN list
               ELSE SubSeq(list, 1, (CHOOSE i \in hits : \A j \in hits : i <= j) - 1)
        h1 == IF field # None
              THEN LET prev_parent == field[1] IN
                   CASE prev_parent.variant = "Root" ->
                          [h EXCEPT !.roots[prev_parent.ptr].children = Cut(@, child)]
                     [] prev_parent.variant = "Element" ->
                          [h EXCEPT !.elements[prev_parent.ptr].children =
                              Cut(@, to_child_of_element(child))]
              ELSE h
    IN set_parent_field(h1, child, Some(parent))

\* fn replace_parent(child, parent, parent_field)
replace_parent(h, child, parent) ==
    LET field == parent_field(h, child)
        h1 == IF field # None
              THEN LET prev_parent == field[1] IN
                   CASE prev_parent.variant = "Root" ->
                          [h EXCEPT !.roots[prev_parent.ptr].children =
                              SelectSeq(@, LAMBDA n : n # child)]
                     [] prev_parent.variant = "Element" ->
                          LET as_element_child == to_child_of_element(child) IN
                          [h EXCEPT !.elements[prev_parent.ptr].children =
                              SelectSeq(@, LAMBDA n : n # as_element_child)]
              ELSE h
    IN set_parent_field(h1, child, Some(parent))

\* ChildOfRoot::replace_parent without the removal of the root's Element.
ChildOfRoot_replace_parent_keeps_element(h, self, parent) ==
    replace_parent(h, self, ParentOfChild("Root", parent))

\* ChildOfRoot::replace_parent whose retain keeps the Elements and drops the rest.
ChildOfRoot_replace_parent_drops_others(h, self, parent) ==
    CASE self.variant = "Element" ->
           LET h1 == [h EXCEPT !.roots[parent].children =
                         SelectSeq(@, LAMBDA c : is_element(c))]
           IN replace_parent(h1, self, ParentOfChild("Root", parent))
      [] OTHER -> replace_parent(h, self, ParentOfChild("Root", parent))

\* ChildOfRoot::replace_parent
ChildOfRoot_replace_parent(h, self, parent) ==
    CASE self.variant = "Element" ->
           LET h1 == [h EXCEPT !.roots[parent].children =
                         SelectSeq(@, LAMBDA c : ~is_element(c))]
           IN replace_parent(h1, self, ParentOfChild("Root", parent))
      [] self.variant = "Comment" ->
           replace_parent(h, self, ParentOfChild("Root", parent))
      [] self.variant = "ProcessingInstruction" ->
           replace_parent(h, self, ParentOfChild("Root", parent))

\* ChildOfElement::replace_parent whose Text arm does not unlink the node.
ChildOfElement_replace_parent_text_stays(h, self, parent) ==
    CASE self.variant = "Text" -> [h EXCEPT !.texts[self.ptr].parent = Some(parent)]
      [] OTHER -> replace_parent(h, ChildOfRoot(self.variant, self.ptr),
                                 ParentOfChild("Element", parent))

\* ChildOfElement::replace_parent
ChildOfElement_replace_parent(h, self, parent) ==
    CASE self.variant = "Element" ->
           replace_parent(h, ChildOfRoot("Element", self.ptr),
                          ParentOfChild("Element", parent))
      [] self.variant = "Comment" ->
           replace_parent(h, ChildOfRoot("Comment", self.ptr),
                          ParentOfChild("Element", parent))
      [] self.variant = "ProcessingInstruction" ->
           replace_parent(h, ChildOfRoot("ProcessingInstruction", self.ptr),
                          ParentOfChild("Element", parent))
      [] self.variant = "Text" ->
           LET n == h.texts[self.ptr]
               h1 == IF n.parent # None
                     THEN [h EXCEPT !.elements[n.parent[1]].children =
                              SelectSeq(@, LAMBDA x : x # self)]
                     ELSE h
           IN [h1 EXCEPT !.texts[self.ptr].parent = Some(parent)]

\* ---------------------------------------------------------------- Storage
\* Storage::create_root
create_root ==
    /\ Len(roots) < NumRoots
    /\ roots' = Append(roots, [children |-> <<>>])
    /\ UNCHANGED <<elements, attributes, texts, comments, processing_instructions>>

\* Storage::create_element
create_element(name) ==
    /\ Len(elements) < NumElements
    /\ elements' = Append(elements,
          [name |-> intern_qname(name),
           preferred_prefix |-> None,
           children |-> <<>>,
           parent |-> None,
           attributes |-> <<>>,
           prefix_to_namespace |-> HashMap_new])
    /\ UNCHANGED <<roots, attributes, texts, comments, processing_instructions>>

\* Storage::create_attribute
create_attribute(name, value) ==
    /\ Len(attributes) < NumAttributes
    /\ attributes' = Append(attributes,
          [name |-> intern_qname(name),
           preferred_prefix |-> None,
           value |-> intern(value),
           parent |-> None])
    /\ UNCHANGED <<roots, elements, texts, comments, processing_instructions>>

\* Storage::create_text
create_text(text) ==
    /\ Len(texts) < NumTexts
    /\ texts' = Append(texts, [text |-> intern(text), parent |-> None])
    /\ UNCHANGED <<roots, elements, attributes, comments, processing_instructions>>

\* Storage::create_comment
create_comment(text) ==
    /\ Len(comments) < NumComments
    /\ comments' = Append(comments, [text |-> intern(text), parent |-> None])
    /\ UNCHANGED <<roots, elements, attributes, texts, processing_instructions>>

\* Storage::create_processing_instruction
create_processing_instruction(target, value) ==
    /\ Len(processing_instructions) < NumPIs
    /\ processing_instructions' = Append(processing_instructions,
          [target |-> intern(target),
           value |-> IF value = None THEN None ELSE Some(intern(value[1])),
           parent |-> None])
    /\ UNCHANGED <<roots, elements, attributes, texts, comments>>

\* element_set_name that builds the element anew under the new name.
element_set_name_resets(element, name) ==
    /\ elements' = [elements EXCEPT ![element] =
          [name |-> intern_qname(name),
           preferred_prefix |-> None,
           children |-> <<>>,
           parent |-> None,
           attributes |-> <<>>,
           prefix_to_namespace |-> HashMap_new]]
    /\ UNCHANGED <<roots, attributes, texts, comments, processing_instructions>>

\* Storage::element_set_name
element_set_name(element, name) ==
    /\ elements' = [elements EXCEPT ![element].name = intern_qname(name)]
    /\ UNCHANGED <<roots, attributes, texts, comments, processing_instructions>>

\* Storage::element_register_prefix (HashMap::insert overwrites)
element_register_prefix(element, prefix, namespace_uri) ==
    LET key == intern(prefix)
        uri == intern(namespace_uri)
        map == elements[element].prefix_to_namespace
    IN /\ elements' = [elements EXCEPT ![element].prefix_to_namespace =
              [k \in DOMAIN map \cup {key} |-> IF k = key THEN uri ELSE map[k]]]
       /\ UNCHANGED <<roots, attributes, texts, comments, processing_instructions>>

\* prefix.map(|p| self.intern(p))
intern_option(o) == IF o = None THEN None ELSE Some(intern(o[1]))

\* Storage::element_set_preferred_prefix
element_set_preferred_prefix(element, prefix) ==
    /\ elements' = [elements EXCEPT ![element].preferred_prefix = intern_option(prefix)]
    /\ UNCHANGED <<roots, attributes, texts, comments, processing_instructions>>

\* Storage::attribute_set_preferred_prefix
attribute_set_preferred_prefix(attribute, prefix) ==
    /\ attributes' = [attributes EXCEPT ![attribute].preferred_prefix = intern_option(prefix)]
    /\ UNCHANGED <<roots, elements, texts, comments, processing_instructions>>

\* Storage::text_set_text
text_set_text(text, new_text) ==
    /\ texts' = [texts EXCEPT ![text].text = intern(new_text)]
    /\ UNCHANGED <<roots, elements, attributes, comments, processing_instructions>>

\* Storage::comment_set_text
comment_set_text(comment, new_text) ==
    /\ comments' = [comments EXCEPT ![comment].text = intern(new_text)]
    /\ UNCHANGED <<roots, elements, attributes, texts, processing_instructions>>

\* Storage::processing_instruction_set_target
processing_instruction_set_target(pi, new_target) ==
    /\ processing_instructions' =
          [processing_instructions EXCEPT ![pi].target = intern(new_target)]
    /\ UNCHANGED <<roots, elements, attributes, texts, comments>>

\* Storage::processing_instruction_set_value
processing_instruction_set_value(pi, new_value) ==
    /\ processing_instructions' =
          [processing_instructions EXCEPT ![pi].value = intern_option(new_value)]
    /\ UNCHANGED <<roots, elements, attributes, texts, comments>>

\* ---------------------------------------------------------------- Connections
\* Connections::append_root_child; root is self.root.
append_root_child(root, child) ==
    LET h1 == ChildOfRoot_replace_parent(heap, child, root)
        h2 == [h1 EXCEPT !.roots[root].children = Append(@, child)]
    IN Commit(h2)

\* append_element_child that pushes the child before it unlinks it.
append_element_child_pushes_first(parent, child) ==
    LET h1 == [heap EXCEPT !.elements[parent].children = Append(@, child)]
        h2 == ChildOfElement_replace_parent(h1, child, parent)
    IN Commit(h2)

\* append_element_child with the roles exchanged for an Element child: it
\* links parent under child.
append_element_child_swapped(parent, child) ==
    IF child.variant = "Element"
    THEN LET h1 == ChildOfElement_replace_parent(heap, ChildOfElement("Element", parent),
                                                 child.ptr)
             h2 == [h1 EXCEPT !.elements[child.ptr].children =
                       Append(@, ChildOfElement("Element", parent))]
         IN Commit(h2)
    ELSE LET h1 == ChildOfElement_replace_parent(heap, child, parent)
             h2 == [h1 EXCEPT !.elements[parent].children = Append(@, child)]
         IN Commit(h2)

\* Connections::append_element_child
append_element_child(parent, child) ==
    LET h1 == ChildOfElement_replace_parent(heap, child, parent)
        h2 == [h1 EXCEPT !.elements[parent].children = Append(@, child)]
    IN Commit(h2)

\* set_attribute that removes the entries equal to the handle, not to the name.
set_attribute_retains_by_handle(parent, attribute) ==
    LET h1 == [heap EXCEPT !.elements[parent].attributes =
                  SelectSeq(@, LAMBDA a : a # attribute)]
        h2 == [h1 EXCEPT !.elements[parent].attributes = Append(@, attribute)]
        h3 == [h2 EXCEPT !.attributes[attribute].parent = Some(parent)]
    IN Commit(h3)

\* Connections::set_attribute
set_attribute(parent, attribute) ==
    LET attr_name == as_qname(heap.attributes[attribute].name)
        h1 == [heap EXCEPT !.elements[parent].attributes =
                  SelectSeq(@, LAMBDA a : as_qname(heap.attributes[a].name) # attr_name)]
        h2 == [h1 EXCEPT !.elements[parent].attributes = Append(@, attribute)]
        h3 == [h2 EXCEPT !.attributes[attribute].parent = Some(parent)]
    IN Commit(h3)

\* ---------------------------------------------------------------- reads
\* Connections::element_parent
element_parent(h, child) == h.elements[child].parent
\* Connections::text_parent
text_parent(h, child) == h.texts[child].parent
\* Connections::comment_parent
comment_parent(h, child) == h.comments[child].parent
\* Connections::processing_instruction_parent
processing_instruction_parent(h, child) == h.processing_instructions[child].parent
\* Connections::attribute_parent
attribute_parent(h, attribute) == h.attributes[attribute].parent
\* Connections::root_children
root_children(h, root) == h.roots[root].children
\* Connections::element_children
element_children(h, parent) == h.elements[parent].children
\* Connections::attributes
element_attributes(h, parent) == h.elements[parent].attributes

\* Iterator::position: the first index whose entry is x.
position(data, x) ==
    LET hits == {i \in DOMAIN data : data[i] = x}
    IN IF hits = {} THEN None
       ELSE Some(CHOOSE i \in hits : \A j \in hits : i <= j)

\* Connections::attribute whose find compares the local parts only.
attribute_by_local_part(h, element, name) ==
    LET found == SelectSeq(h.elements[element].attributes,
                           LAMBDA a : as_qname(h.attributes[a].name).local_part
                                          = name.local_part)
    IN IF found = <<>> THEN None ELSE Some(found[1])

\* Connections::attribute
attribute(h, element, name) ==
    LET found == SelectSeq(h.elements[element].attributes,
                           LAMBDA a : as_qname(h.attributes[a].name) = name)
    IN IF found = <<>> THEN None ELSE Some(found[1])

\* ---------------------------------------------------------------- siblings
\* Option::unwrap on None: the call panics instead of returning an iterator.
Panics == [panics |-> TRUE]
SiblingIter(data) == [panics |-> FALSE, idx |-> 0, data |-> data]

\* &data[..pos] / &data[pos+1..]; pos counts from 1 here.
sibling_slice(direction, data, pos) ==
    CASE direction = "Preceding" -> SubSeq(data, 1, pos - 1)
      [] direction = "Following" -> SubSeq(data, pos + 1, Len(data))

\* SiblingIter::of_root
SiblingIter_of_root(h, direction, root_parent, child) ==
    LET data == h.roots[root_parent].children
        pos == position(data, child)
    IN IF pos = None THEN Panics
       ELSE SiblingIter([variant |-> "FromRoot",
                         children |-> sibling_slice(direction, data, pos[1])])

\* SiblingIter::of_element
SiblingIter_of_element(h, direction, element_parent_, child) ==
    LET data == h.elements[element_parent_].children
        pos == position(data, child)
    IN IF pos = None THEN Panics
       ELSE SiblingIter([variant |-> "FromElement",
                         children |-> sibling_slice(direction, data, pos[1])])

\* SiblingIter::dead
SiblingIter_dead == SiblingIter([variant |-> "Dead"])

\* SiblingIter::next: the item yielded and the iterator afterwards.
SiblingIter_next(self) ==
    CASE self.data.variant = "FromRoot" ->
           IF self.idx >= Len(self.data.children)
           THEN [item |-> None, iter |-> self]
           ELSE [item |-> Some(to_child_of_element(self.data.children[self.idx + 1])),
                 iter |-> [self EXCEPT !.idx = @ + 1]]
      [] self.data.variant = "FromElement" ->
           IF self.idx >= Len(self.data.children)
           THEN [item |-> None, iter |-> self]
           ELSE [item |-> Some(self.data.children[self.idx + 1]),
                 iter |-> [self EXCEPT !.idx = @ + 1]]
      [] self.data.variant = "Dead" -> [item |-> None, iter |-> self]

\* A caller draining the iterator: the items next yields until it yields None.
RECURSIVE drain(_)
drain(it) ==
    LET r == SiblingIter_next(it)
    IN IF r.item = None THEN <<>> ELSE <<r.item[1]>> \o drain(r.iter)

\* The body shared by the *_preceding_siblings / *_following_siblings of the
\* kinds whose parent is Option<ParentOfChild>.
siblings_of_root_or_element(h, direction, parent, variant, n) ==
    IF parent = None THEN SiblingIter_dead
    ELSE CASE parent[1].variant = "Root" ->
                SiblingIter_of_root(h, direction, parent[1].ptr, ChildOfRoot(variant, n))
           [] parent[1].variant = "Element" ->
                SiblingIter_of_element(h, direction, parent[1].ptr, ChildOfElement(variant, n))

\* Connections::element_preceding_siblings
element_preceding_siblings(h, element) ==
    siblings_of_root_or_element(h, "Preceding", h.elements[element].parent, "Element", element)
\* Connections::element_following_siblings
element_following_siblings(h, element) ==
    siblings_of_root_or_element(h, "Following", h.elements[element].parent, "Element", element)

\* Connections::text_preceding_siblings
text_preceding_siblings(h, text) ==
    LET parent == h.texts[text].parent
    IN IF parent = None THEN SiblingIter_dead
       ELSE SiblingIter_of_element(h, "Preceding", parent[1], ChildOfElement("Text", text))
\* Connections::text_following_siblings
text_following_siblings(h, text) ==
    LET parent == h.texts[text].parent
    IN IF parent = None THEN SiblingIter_dead
       ELSE SiblingIter_of_element(h, "Following", parent[1], ChildOfElement("Text", text))

\* Connections::comment_preceding_siblings
comment_preceding_siblings(h, comment) ==
    siblings_of_root_or_element(h, "Preceding", h.comments[comment].parent, "Comment", comment)
\* Connections::comment_following_siblings
comment_following_siblings(h, comment) ==
    siblings_of_root_or_element(h, "Following", h.comments[comment].parent, "Comment", comment)

\* Connections::processing_instruction_preceding_siblings
processing_instruction_preceding_siblings(h, pi) ==
    siblings_of_root_or_element(h, "Preceding", h.processing_instructions[pi].parent,
                                "ProcessingInstruction", pi)
\* Connections::processing_instruction_following_siblings
processing_instruction_following_siblings(h, pi) ==
    siblings_of_root_or_element(h, "Following", h.processing_instructions[pi].parent,
                                "ProcessingInstruction", pi)

\* ---------------------------------------------------------------- namespaces
\* The result of a call: it returns ret, or it never returns.
Returns(v) == [diverges |-> FALSE, ret |-> v]
Diverges == [diverges |-> TRUE]

\* The orders in which HashMap::iter may visit the keys: unspecified, so every
\* enumeration of the possible keys is one.
InternedPrefixes == {intern(p) : p \in Prefixes}
IterOrders ==
    {s \in [1..Cardinality(InternedPrefixes) -> InternedPrefixes] :
        \A i, j \in DOMAIN s : i # j => s[i] # s[j]}

\* HashMap::iter under one of its orders: the keys of the map, in that order.
iter(map, order) == SelectSeq(order, LAMBDA k : k \in DOMAIN map)

\* match element_r.parent { Some(ParentOfChild::Element(parent)) => ..., _ => ... }
element_parent_of(element_r) ==
    IF element_r.parent # None /\ element_r.parent[1].variant = "Element"
    THEN Some(element_r.parent[1].ptr)
    ELSE None

\* The loop of element_namespace_uri_for_prefix. Its only state is the current
\* element and it writes nothing, so coming back to an element already visited
\* means the loop never ends.
RECURSIVE namespace_uri_for_prefix_loop(_, _, _, _)

\* The loop without `element = parent`: it goes round with the same element.
namespace_uri_for_prefix_loop_stays(h, element, prefix, visited) ==
    IF element \in visited THEN Diverges
    ELSE LET element_r == h.elements[element]
         IN IF intern(prefix) \in DOMAIN element_r.prefix_to_namespace
            THEN Returns(Some(as_slice(element_r.prefix_to_namespace[intern(prefix)])))
            ELSE IF element_parent_of(element_r) # None
                 THEN namespace_uri_for_prefix_loop(h, element, prefix, visited \cup {element})
                 ELSE Returns(None)

\* The loop that asks the parent first and falls back on the local map: the
\* farthest binding wins.
namespace_uri_for_prefix_loop_farthest(h, element, prefix, visited) ==
    IF element \in visited THEN Diverges
    ELSE LET element_r == h.elements[element]
             up == element_parent_of(element_r)
             above == IF up # None
                      THEN namespace_uri_for_prefix_loop(h, up[1], prefix,
                                                         visited \cup {element})
                      ELSE Returns(None)
         IN IF above.diverges THEN above
            ELSE IF above.ret # None THEN above
            ELSE IF intern(prefix) \in DOMAIN element_r.prefix_to_namespace
                 THEN Returns(Some(as_slice(element_r.prefix_to_namespace[intern(prefix)])))
                 ELSE Returns(None)

\* The loop of element_namespace_uri_for_prefix.
namespace_uri_for_prefix_loop(h, element, prefix, visited) ==
    IF element \in visited THEN Diverges
    ELSE LET element_r == h.elements[element]
             up == element_parent_of(element_r)
         IN IF intern(prefix) \in DOMAIN element_r.prefix_to_namespace
            THEN Returns(Some(as_slice(element_r.prefix_to_namespace[intern(prefix)])))
            ELSE IF up # None
                 THEN namespace_uri_for_prefix_loop(h, up[1], prefix, visited \cup {element})
                 ELSE Returns(None)

\* Connections::element_namespace_uri_for_prefix
element_namespace_uri_for_prefix(h, element, prefix) ==
    namespace_uri_for_prefix_loop(h, element, prefix, {})

\* The loop of element_prefix_for_namespace_uri; order[e] is the order in which
\* the map of element e is iterated.
RECURSIVE prefix_for_namespace_uri_loop(_, _, _, _, _, _)
\* The loop without the search for the preferred prefix: it returns the first
\* prefix the iteration meets.
prefix_for_namespace_uri_loop_first(h, element, namespace_uri, preferred_prefix, order, visited) ==
    IF element \in visited THEN Diverges
    ELSE LET element_r == h.elements[element]
             map == element_r.prefix_to_namespace
             prefixes == SelectSeq(iter(map, order[element]),
                                   LAMBDA prefix : as_slice(map[prefix]) = namespace_uri)
             up == element_parent_of(element_r)
         IN IF prefixes # <<>> THEN Returns(Some(as_slice(prefixes[1])))
            ELSE IF up # None
                 THEN prefix_for_namespace_uri_loop(h, up[1], namespace_uri,
                          preferred_prefix, order, visited \cup {element})
                 ELSE Returns(None)

prefix_for_namespace_uri_loop(h, element, namespace_uri, preferred_prefix, order, visited) ==
    IF element \in visited THEN Diverges
    ELSE LET element_r == h.elements[element]
             map == element_r.prefix_to_namespace
             prefixes == SelectSeq(iter(map, order[element]),
                                   LAMBDA prefix : as_slice(map[prefix]) = namespace_uri)
             found == IF preferred_prefix # None
                      THEN SelectSeq(prefixes,
                                     LAMBDA prefix : as_slice(prefix) = preferred_prefix[1])
                      ELSE <<>>
             up == element_parent_of(element_r)
         IN IF found # <<>> THEN Returns(Some(as_slice(found[1])))
            ELSE IF prefixes # <<>> THEN Returns(Some(as_slice(prefixes[1])))
            ELSE IF up # None
                 THEN prefix_for_namespace_uri_loop(h, up[1], namespace_uri,
                          preferred_prefix, order, visited \cup {element})
                 ELSE Returns(None)

\* Connections::element_prefix_for_namespace_uri
element_prefix_for_namespace_uri(h, element, namespace_uri, preferred_prefix, order) ==
    prefix_for_namespace_uri_loop(h, element, namespace_uri, preferred_prefix, order, {})

\* for (&prefix, &uri) in element_r.prefix_to_namespace.iter() { ... push ... }
RECURSIVE push_namespaces(_, _, _)
\* The for loop that overwrites the URI of a prefix already collected: the
\* farthest binding is the one emitted.
push_namespaces_overwrites(namespaces, map, keys) ==
    IF keys = <<>> THEN namespaces
    ELSE LET namespace == <<as_slice(keys[1]), as_slice(map[keys[1]])>>
             pushed == IF ~(\E i \in DOMAIN namespaces : namespaces[i][1] = namespace[1])
                       THEN Append(namespaces, namespace)
                       ELSE [i \in DOMAIN namespaces |->
                                IF namespaces[i][1] = namespace[1] THEN namespace
                                ELSE namespaces[i]]
         IN push_namespaces(pushed, map, Tail(keys))

\* The for loop without the `!namespaces.iter().any(..)` test: it pushes every
\* binding it meets.
push_namespaces_always(namespaces, map, keys) ==
    IF keys = <<>> THEN namespaces
    ELSE push_namespaces(Append(namespaces, <<as_slice(keys[1]), as_slice(map[keys[1]])>>),
                         map, Tail(keys))

push_namespaces(namespaces, map, keys) ==
    IF keys = <<>> THEN namespaces
    ELSE LET namespace == <<as_slice(keys[1]), as_slice(map[keys[1]])>>
             pushed == IF ~(\E i \in DOMAIN namespaces : namespaces[i][1] = namespace[1])
                       THEN Append(namespaces, namespace)
                       ELSE namespaces
         IN push_namespaces(pushed, map, Tail(keys))

\* The loop of element_namespaces_in_scope.
RECURSIVE namespaces_in_scope_loop(_, _, _, _, _)
\* The loop that collects the parent's bindings before the element's own: the
\* farthest binding of a prefix is the one kept.
namespaces_in_scope_loop_parent_first(h, element, namespaces, order, visited) ==
    IF element \in visited THEN Diverges
    ELSE LET element_r == h.elements[element]
             map == element_r.prefix_to_namespace
             up == element_parent_of(element_r)
             above == IF up # None
                      THEN namespaces_in_scope_loop(h, up[1], namespaces, order,
                                                    visited \cup {element})
                      ELSE Returns(namespaces)
         IN IF above.diverges THEN above
            ELSE Returns(push_namespaces(above.ret, map, iter(map, order[element])))

namespaces_in_scope_loop(h, element, namespaces, order, visited) ==
    IF element \in visited THEN Diverges
    ELSE LET element_r == h.elements[element]
             map == element_r.prefix_to_namespace
             pushed == push_namespaces(namespaces, map, iter(map, order[element]))
             up == element_parent_of(element_r)
         IN IF up # None
            THEN namespaces_in_scope_loop(h, up[1], pushed, order, visited \cup {element})
            ELSE Returns(pushed)

\* element_namespaces_in_scope that starts from an empty vector instead of the
\* xml pair.
element_namespaces_in_scope_unseeded(h, element, order) ==
    namespaces_in_scope_loop(h, element, <<>>, order, {})

\* Connections::element_namespaces_in_scope, with NamespacesInScope drained
\* into the sequence of the pairs it yields.
element_namespaces_in_scope(h, element, order) ==
    namespaces_in_scope_loop(h, element, <<<<XML_NS_PREFIX, XML_NS_URI>>>>, order, {})

\* The iteration orders of the maps of the allocated elements.
Orders == [ElementPtrs -> IterOrders]

\* ---------------------------------------------------------------- behaviours
Next ==
    \/ create_root
    \/ \E name \in ElementNames : create_element(name)
    \/ \E name \in AttributeNames, value \in AttributeValues : create_attribute(name, value)
    \/ \E text \in TextValues : create_text(text)
    \/ \E text \in TextValues : create_comment(text)
    \/ \E target \in PITargets, value \in PIValues : create_processing_instruction(target, value)
    \/ \E root \in RootPtrs, child \in ChildOfRootArgs : append_root_child(root, child)
    \/ \E parent \in ElementPtrs, child \in ChildOfElementArgs : append_element_child(parent, child)
    \/ \E parent \in ElementPtrs, attr \in AttributePtrs : set_attribute(parent, attr)

Spec == Init /\ [][Next]_vars

\* The operations that decide namespace resolution: allocation and linking of
\* elements, and prefix registration.
ElementArgsOfRoot == {ChildOfRoot("Element", n) : n \in ElementPtrs}
ElementArgsOfElement == {ChildOfElement("Element", n) : n \in ElementPtrs}

NextNs ==
    \/ create_root
    \/ \E name \in ElementNames : create_element(name)
    \/ \E root \in RootPtrs, child \in ElementArgsOfRoot : append_root_child(root, child)
    \/ \E parent \in ElementPtrs, child \in ElementArgsOfElement :
          append_element_child(parent, child)
    \/ \E element \in ElementPtrs, prefix \in Prefixes, uri \in URIs :
          element_register_prefix(element, prefix, uri)

SpecNs == Init /\ [][NextNs]_vars

\* The linking operations alone, and the attribute operations alone.
NextTree ==
    \/ create_root
    \/ \E name \in ElementNames : create_element(name)
    \/ \E text \in TextValues : create_text(text)
    \/ \E text \in TextValues : create_comment(text)
    \/ \E target \in PITargets, value \in PIValues : create_processing_instruction(target, value)
    \/ \E root \in RootPtrs, child \in ChildOfRootArgs : append_root_child(root, child)
    \/ \E parent \in ElementPtrs, child \in ChildOfElementArgs : append_element_child(parent, child)

SpecTree == Init /\ [][NextTree]_vars

\* The attribute operations alone.
NextAttr ==
    \/ \E name \in ElementNames : create_element(name)
    \/ \E name \in AttributeNames, value \in AttributeValues : create_attribute(name, value)
    \/ \E parent \in ElementPtrs, attr \in AttributePtrs : set_attribute(parent, attr)

SpecAttr == Init /\ [][NextAttr]_vars

\* ---------------------------------------------------------------- properties
\* A node handle, whatever union it is wrapped in.
Handle(c) == <<c.variant, c.ptr>>
Handles(list) == [i \in DOMAIN list |-> Handle(list[i])]
\* How many entries of a list are the node c.
Occurs(list, c) == Cardinality({i \in DOMAIN list : Handle(list[i]) = Handle(c)})

\* Every allocated node that can be a child, and its parent as the read
\* operation of its kind reports it (a Text's Element parent widened).
ChildNodes == ChildOfElementArgs
NodeParent(h, c) ==
    CASE c.variant = "Element" -> element_parent(h, c.ptr)
      [] c.variant = "Comment" -> comment_parent(h, c.ptr)
      [] c.variant = "ProcessingInstruction" -> processing_instruction_parent(h, c.ptr)
      [] c.variant = "Text" ->
           IF text_parent(h, c.ptr) = None THEN None
           ELSE Some(ParentOfChild("Element", text_parent(h, c.ptr)[1]))
\* The children list of a parent.
ChildrenOf(h, p) ==
    IF p.variant = "Root" THEN root_children(h, p.ptr) ELSE element_children(h, p.ptr)
\* Every allocated node that can be a parent.
ParentNodes ==
    {ParentOfChild("Root", r) : r \in RootPtrs}
    \cup {ParentOfChild("Element", e) : e \in ElementPtrs}
\* The Elements among the entries of a root's children list.
RootElements(h, root) ==
    {root_children(h, root)[i].ptr : i \in
        {j \in DOMAIN root_children(h, root) : is_element(root_children(h, root)[j])}}
\* The attributes listed by an element.
Listed(h, e) == {element_attributes(h, e)[i] : i \in DOMAIN element_attributes(h, e)}
AttrName(h, a) == as_qname(h.attributes[a].name)

\* C1: every node whose parent field is P occurs exactly once in P's children
\* list, and every attribute whose parent field is P exactly once in P's
\* attributes list.
C1_ParentListsNodeOnce ==
    /\ \A c \in ChildNodes :
          NodeParent(heap, c) # None =>
              Occurs(ChildrenOf(heap, NodeParent(heap, c)[1]), c) = 1
    /\ \A a \in AttributePtrs :
          attribute_parent(heap, a) # None =>
              Cardinality({i \in DOMAIN element_attributes(heap, attribute_parent(heap, a)[1]) :
                              element_attributes(heap, attribute_parent(heap, a)[1])[i] = a}) = 1

\* Every entry of every children list has the owner of the list as its parent.
ChildEntriesPointToOwner ==
    \A p \in ParentNodes : \A i \in DOMAIN ChildrenOf(heap, p) :
        NodeParent(heap, ChildrenOf(heap, p)[i]) = Some(p)

\* C2 as stated: every entry of every children list and of every attributes
\* list has the owner of the list as its parent field.
C2_EntriesPointToOwner ==
    /\ ChildEntriesPointToOwner
    /\ \A e \in ElementPtrs : \A a \in Listed(heap, e) :
          attribute_parent(heap, a) = Some(e)

\* C2 amended: every entry of every children list has the owner of the list as
\* its parent field; every entry of an attributes list has its parent field
\* set, to the owner of one of the attributes lists set_attribute put it in.
C2_ChildEntriesPointToOwner ==
    /\ ChildEntriesPointToOwner
    /\ \A e \in ElementPtrs : \A a \in Listed(heap, e) :
          attribute_parent(heap, a) # None

\* C2 witness: a node was moved from one parent to another, and an attribute
\* listed by two elements has only the later one as its parent.
C2_Witness ==
    /\ \E e \in ElementPtrs, r \in RootPtrs :
          /\ Len(element_children(heap, e)) >= 2
          /\ Len(root_children(heap, r)) >= 1
    /\ \E e1, e2 \in ElementPtrs, a \in AttributePtrs :
          /\ e1 # e2
          /\ a \in Listed(heap, e1) /\ a \in Listed(heap, e2)
          /\ attribute_parent(heap, a) = Some(e2)

\* No child node is an entry of the children lists of two parents.
ChildInOneChildrenList ==
    \A c \in ChildNodes : \A p, q \in ParentNodes :
        (Occurs(ChildrenOf(heap, p), c) > 0 /\ Occurs(ChildrenOf(heap, q), c) > 0) => p = q

\* C3 as stated: no node is an entry of the children list or attributes list
\* of more than one parent.
C3_NodeInOneList ==
    /\ ChildInOneChildrenList
    /\ \A a \in AttributePtrs : \A e1, e2 \in ElementPtrs :
          (a \in Listed(heap, e1) /\ a \in Listed(heap, e2)) => e1 = e2

\* C3 amended: no node is an entry of the children list of more than one
\* parent (Root or Element); attributes lists are excepted.
C3_ChildInOneParent == ChildInOneChildrenList

\* C3 witness: an element lists an Element child that is not itself while
\* one attribute is listed by two elements.
C3_Witness ==
    /\ \E e1, e2 \in ElementPtrs :
          e1 # e2 /\ Occurs(element_children(heap, e1), ChildOfElement("Element", e2)) = 1
    /\ \E e1, e2 \in ElementPtrs, a \in AttributePtrs :
          e1 # e2 /\ a \in Listed(heap, e1) /\ a \in Listed(heap, e2)

\* C4: append_root_child(E2) on a root that lists another Element E1 leaves E2
\* the only Element of the root's children and E1 with no parent.
C4_DisplacedRootElementIsOrphan ==
    [][\A root \in RootPtrs, e2 \in ElementPtrs :
          append_root_child(root, ChildOfRoot("Element", e2)) =>
              \A e1 \in RootElements(heap, root) \ {e2} :
                  /\ RootElements(heap', root) = {e2}
                  /\ element_parent(heap', e1) = None]_vars

\* C5: set_attribute(e, a2) that removes another attribute a1 of the same
\* qualified name from e's attributes leaves a1 unlisted and with no parent.
C5_ReplacedAttributeIsOrphan ==
    [][\A e \in ElementPtrs, a2 \in AttributePtrs :
          set_attribute(e, a2) =>
              \A a1 \in Listed(heap, e) \ {a2} :
                  AttrName(heap, a1) = AttrName(heap, a2) =>
                      /\ a1 \notin Listed(heap', e)
                      /\ attribute_parent(heap', a1) = None]_vars

\* C6: the children list of a root holds at most one Element entry.
C6_RootHasAtMostOneElement ==
    \A r \in RootPtrs :
        Cardinality({i \in DOMAIN root_children(heap, r) :
                        is_element(root_children(heap, r)[i])}) <= 1

\* C6 witness: a root lists an Element and a Comment or ProcessingInstruction,
\* and another Element was displaced from it (its parent field still names
\* the root).
C6_Witness ==
    \E r \in RootPtrs, e1, e2 \in ElementPtrs :
        /\ e1 # e2
        /\ RootElements(heap, r) = {e2}
        /\ Len(root_children(heap, r)) >= 2
        /\ element_parent(heap, e1) = Some(ParentOfChild("Root", r))

\* C7: no attributes list holds two entries with equal qualified names.
C7_AttributeNamesDistinct ==
    \A e \in ElementPtrs : \A i, j \in DOMAIN element_attributes(heap, e) :
        i # j => AttrName(heap, element_attributes(heap, e)[i])
                     # AttrName(heap, element_attributes(heap, e)[j])

\* C7 witness: an element lists an attribute that replaced another of the same
\* qualified name (whose parent field still names the element).
C7_Witness ==
    \E e \in ElementPtrs, a1, a2 \in AttributePtrs :
        /\ a1 # a2
        /\ AttrName(heap, a1) = AttrName(heap, a2)
        /\ a2 \in Listed(heap, e) /\ a1 \notin Listed(heap, e)
        /\ attribute_parent(heap, a1) = Some(e)

\* The sibling operations of the kind of node c.
PrecedingSiblings(h, c) ==
    CASE c.variant = "Element" -> element_preceding_siblings(h, c.ptr)
      [] c.variant = "Text" -> text_preceding_siblings(h, c.ptr)
      [] c.variant = "Comment" -> comment_preceding_siblings(h, c.ptr)
      [] c.variant = "ProcessingInstruction" ->
           processing_instruction_preceding_siblings(h, c.ptr)
FollowingSiblings(h, c) ==
    CASE c.variant = "Element" -> element_following_siblings(h, c.ptr)
      [] c.variant = "Text" -> text_following_siblings(h, c.ptr)
      [] c.variant = "Comment" -> comment_following_siblings(h, c.ptr)
      [] c.variant = "ProcessingInstruction" ->
           processing_instruction_following_siblings(h, c.ptr)

\* C8: for every node whose parent field is set, preceding_siblings and
\* following_siblings return, and preceding ++ [node] ++ following is, handle
\* by handle, the parent's children list.
C8_SiblingsSplitChildren ==
    \A c \in ChildNodes :
        NodeParent(heap, c) # None =>
            LET pre == PrecedingSiblings(heap, c)
                fol == FollowingSiblings(heap, c)
            IN /\ ~pre.panics
               /\ ~fol.panics
               /\ Handles(drain(pre)) \o <<Handle(c)>> \o Handles(drain(fol))
                     = Handles(ChildrenOf(heap, NodeParent(heap, c)[1]))

\* A list without the entries that are the node c.
Without(list, c) == SelectSeq(list, LAMBDA n : Handle(n) # Handle(c))

\* C10: append_element_child(parent, c) leaves parent's children list equal to
\* its previous list without c, followed by c.
C10_AppendElementChildMovesToEnd ==
    [][\A parent \in ElementPtrs, c \in ChildOfElementArgs :
          append_element_child(parent, c) =>
              /\ element_children(heap', parent)
                    = Append(Without(element_children(heap, parent), c), c)
              /\ Occurs(element_children(heap', parent), c) = 1]_vars

\* C10 witness: an element lists four children or more, the first not an
\* Element and the last an Element: nodes were appended behind earlier ones.
C10_Witness ==
    \E e \in ElementPtrs :
        /\ Len(element_children(heap, e)) >= 4
        /\ element_children(heap, e)[Len(element_children(heap, e))].variant = "Element"
        /\ element_children(heap, e)[1].variant # "Element"

\* The arguments a caller can pass to the namespace lookups.
PreferredPrefixes == {None} \cup {Some(p) : p \in Prefixes}

\* The three namespace lookups return for element e, whatever they are asked
\* and in whatever order the maps are iterated.
LookupsReturn(e) ==
    /\ \A p \in Prefixes : ~element_namespace_uri_for_prefix(heap, e, p).diverges
    /\ \A u \in URIs, pp \in PreferredPrefixes, order \in Orders :
          ~element_prefix_for_namespace_uri(heap, e, u, pp, order).diverges
    /\ \A order \in Orders : ~element_namespaces_in_scope(heap, e, order).diverges

\* The Element parent of an element, read from its parent field.
ElementParentOf(e) ==
    IF elements[e].parent # None /\ elements[e].parent[1].variant = "Element"
    THEN {elements[e].parent[1].ptr}
    ELSE {}

\* Following Element parents from e ends, within n steps, at an element whose
\* parent is none or a Root.
RECURSIVE ChainEnds(_, _)
ChainEnds(e, n) ==
    IF ElementParentOf(e) = {} THEN TRUE
    ELSE IF n = 0 THEN FALSE
    ELSE ChainEnds(CHOOSE p \in ElementParentOf(e) : TRUE, n - 1)

\* No element is reached twice by following Element parents from e.
ChainAcyclic(e) == ChainEnds(e, Len(elements))

\* C9 as stated: in every reachable state the three namespace lookups
\* terminate and return, for every element and argument.
C9_NamespaceLookupsTotal == \A e \in ElementPtrs : LookupsReturn(e)

\* C9 amended: in every reachable state the three namespace lookups terminate
\* and return for every element whose chain of Element parents is acyclic.
C9_NamespaceLookupsTotalOnAcyclic ==
    \A e \in ElementPtrs : ChainAcyclic(e) => LookupsReturn(e)

\* C9 witness: an element below an Element parent that is a child of a root,
\* with a prefix bound only on the parent, so the lookups ascend and end at
\* the root.
C9_Witness ==
    \E e, p \in ElementPtrs, r \in RootPtrs :
        /\ e # p
        /\ element_parent(heap, e) = Some(ParentOfChild("Element", p))
        /\ element_parent(heap, p) = Some(ParentOfChild("Root", r))
        /\ DOMAIN elements[e].prefix_to_namespace = {}
        /\ DOMAIN elements[p].prefix_to_namespace # {}
        /\ element_namespace_uri_for_prefix(heap, e, "p") = Returns(Some("U1"))

\* C11: append_root_child(root, c) leaves root's children list equal to its
\* previous list without c and, only when c is an Element, without every
\* Element entry, followed by c; the entries kept are in their previous order.
C11_AppendRootChildResult ==
    [][\A root \in RootPtrs, c \in ChildOfRootArgs :
          append_root_child(root, c) =>
              root_children(heap', root)
                 = Append(SelectSeq(root_children(heap, root),
                                    LAMBDA n : n # c /\ (is_element(c) => ~is_element(n))),
                          c)]_vars

\* C11 witness: a root lists a Comment and a ProcessingInstruction in the order
\* they were appended, then an Element appended after them, and another
\* Element that the append displaced is no longer listed.
C11_Witness ==
    \E r \in RootPtrs, e1, e2 \in ElementPtrs :
        /\ e1 # e2
        /\ Len(root_children(heap, r)) = 3
        /\ ~is_element(root_children(heap, r)[1])
        /\ ~is_element(root_children(heap, r)[2])
        /\ root_children(heap, r)[3] = ChildOfRoot("Element", e2)
        /\ element_parent(heap, e1) = Some(ParentOfChild("Root", r))

\* The qualified names a caller looks up: those in use and one never used.
LookupNames == AttributeNames \cup {QName(None, "y")}

\* C12: right after set_attribute(e, a), attribute(e, q) with q the name of a
\* returns a, a is the only entry of attributes(e) named q, and
\* attribute_parent(a) is e; and attribute(e, q) returns none exactly when no
\* entry of attributes(e) is named q.
C12_SetAttributeThenLookup ==
    [][/\ \A e \in ElementPtrs, a \in AttributePtrs :
             set_attribute(e, a) =>
                 /\ attribute(heap', e, AttrName(heap', a)) = Some(a)
                 /\ \A i \in DOMAIN element_attributes(heap', e) :
                        AttrName(heap', element_attributes(heap', e)[i]) = AttrName(heap', a)
                            <=> i = Len(element_attributes(heap', e))
                 /\ element_attributes(heap', e)[Len(element_attributes(heap', e))] = a
                 /\ attribute_parent(heap', a) = Some(e)
       /\ \A e \in ElementPtrs', q \in LookupNames :
             attribute(heap', e, q) = None
                 <=> \A i \in DOMAIN element_attributes(heap', e) :
                        AttrName(heap', element_attributes(heap', e)[i]) # q]_vars

\* C12 witness: an element lists two attributes whose names share the local
\* part and differ in the namespace, and the lookup of the second one's name
\* returns the second one.
C12_Witness ==
    \E e \in ElementPtrs, a1, a2 \in AttributePtrs :
        /\ element_attributes(heap, e) = <<a1, a2>>
        /\ AttrName(heap, a1).local_part = AttrName(heap, a2).local_part
        /\ AttrName(heap, a1) # AttrName(heap, a2)
        /\ attribute(heap, e, AttrName(heap, a2)) = Some(a2)
        /\ attribute_parent(heap, a2) = Some(e)

\* The elements from e upwards through Element parents, e first; the walk ends
\* at an element whose parent is none or a Root.
RECURSIVE ChainFrom(_, _)
ChainFrom(e, n) ==
    IF ElementParentOf(e) = {} \/ n = 0 THEN <<e>>
    ELSE <<e>> \o ChainFrom(CHOOSE p \in ElementParentOf(e) : TRUE, n - 1)
Chain(e) == ChainFrom(e, Len(elements))

\* The local prefix map of element x, as plain strings.
Binds(x, p) == \E k \in DOMAIN elements[x].prefix_to_namespace : k.interned = p
LocalBinding(x, p) ==
    (elements[x].prefix_to_namespace[
        CHOOSE k \in DOMAIN elements[x].prefix_to_namespace : k.interned = p]).interned
LocalBindings(x) == {<<p, LocalBinding(x, p)>> : p \in {q \in Prefixes : Binds(x, q)}}

\* The level of the chain of e that is nearest to e among those binding p
\* (0 when none does), and the URI bound there.
NearestLevel(e, p) ==
    LET hits == {i \in DOMAIN Chain(e) : Binds(Chain(e)[i], p)}
    IN IF hits = {} THEN 0 ELSE CHOOSE i \in hits : \A j \in hits : i <= j
NearestBinding(e, p) ==
    IF NearestLevel(e, p) = 0 THEN None
    ELSE Some(LocalBinding(Chain(e)[NearestLevel(e, p)], p))

\* C13: on an acyclic chain element_namespace_uri_for_prefix(E, p) returns the
\* URI bound to p on the nearest element from E upwards whose local map binds
\* p, none if no element of the chain binds p; and the URI a local map binds
\* to p is the one most recently registered for p on that element: a
\* registration overwrites it, and nothing else changes any binding.
C13_NearestBindingWins ==
    /\ [](\A e \in ElementPtrs : ChainAcyclic(e) =>
             \A p \in Prefixes :
                 element_namespace_uri_for_prefix(heap, e, p) = Returns(NearestBinding(e, p)))
    /\ [][/\ \A x \in ElementPtrs, p \in Prefixes, u \in URIs :
                element_register_prefix(x, p, u) =>
                    /\ LocalBindings(x)' =
                          {b \in LocalBindings(x) : b[1] # p} \cup {<<p, u>>}
                    /\ \A y \in ElementPtrs \ {x} : LocalBindings(y)' = LocalBindings(y)
          /\ (\E x \in ElementPtrs, p \in Prefixes, u \in URIs :
                  element_register_prefix(x, p, u))
                \/ \A y \in ElementPtrs : LocalBindings(y)' = LocalBindings(y)]_vars

\* C13 witness: an element and its Element parent bind p to different URIs
\* and the lookup from the element returns its own; q is bound on the parent
\* only and the lookup ascends to it; xml is bound nowhere and the lookup
\* ends at the root with none.
C13_Witness ==
    \E e, par \in ElementPtrs, r \in RootPtrs :
        /\ e # par
        /\ element_parent(heap, e) = Some(ParentOfChild("Element", par))
        /\ element_parent(heap, par) = Some(ParentOfChild("Root", r))
        /\ Binds(e, "p") /\ Binds(par, "p")
        /\ LocalBinding(e, "p") # LocalBinding(par, "p")
        /\ element_namespace_uri_for_prefix(heap, e, "p") = Returns(Some(LocalBinding(e, "p")))
        /\ ~Binds(e, "q") /\ Binds(par, "q")
        /\ element_namespace_uri_for_prefix(heap, e, "q")
              = Returns(Some(LocalBinding(par, "q")))
        /\ element_namespace_uri_for_prefix(heap, e, XML_NS_PREFIX) = Returns(None)

\* C14: on an acyclic chain the sequence element_namespaces_in_scope(E) emits
\* has pairwise distinct prefixes, whatever the maps' iteration orders.
C14_InScopePrefixesDistinct ==
    \A e \in ElementPtrs : ChainAcyclic(e) =>
        \A order \in Orders :
            LET ns == element_namespaces_in_scope(heap, e, order).ret
            IN \A i, j \in DOMAIN ns : i # j => ns[i][1] # ns[j][1]

\* C14 witness: an element and its Element parent both bind xml and both bind
\* p, and the sequence emitted for the element holds xml and p once each.
C14_Witness ==
    \E e, par \in ElementPtrs :
        /\ e # par
        /\ element_parent(heap, e) = Some(ParentOfChild("Element", par))
        /\ ChainAcyclic(e)
        /\ Binds(e, XML_NS_PREFIX) /\ Binds(par, XML_NS_PREFIX)
        /\ Binds(e, "p") /\ Binds(par, "p")
        /\ \A order \in Orders :
              Len(element_namespaces_in_scope(heap, e, order).ret) = 2

\* C15: on an acyclic chain element_namespaces_in_scope(E) emits
\* (xml, XML_NS_URI) first, then exactly one pair for each non-xml prefix bound
\* on the chain, with the URI of its nearest binding, a pair bound on a nearer
\* element before a pair bound on a farther one, and nothing else.
C15_InScopeContents ==
    \A e \in ElementPtrs : ChainAcyclic(e) =>
        \A order \in Orders :
            LET ns == element_namespaces_in_scope(heap, e, order).ret
                rest == 2..Len(ns)
                bound == {p \in Prefixes \ {XML_NS_PREFIX} : NearestLevel(e, p) # 0}
            IN /\ Len(ns) >= 1
               /\ ns[1] = <<XML_NS_PREFIX, XML_NS_URI>>
               /\ {ns[i][1] : i \in rest} = bound
               /\ Len(ns) = 1 + Cardinality(bound)
               /\ \A i \in rest : Some(ns[i][2]) = NearestBinding(e, ns[i][1])
               /\ \A i, j \in rest :
                     i < j => NearestLevel(e, ns[i][1]) <= NearestLevel(e, ns[j][1])

\* C15 witness: an element binds q, its Element parent binds xml, p and q
\* (q to another URI), and the sequence emitted for the element is xml with
\* the fixed URI, then q with the element's URI, then p with the parent's.
C15_Witness ==
    \E e, par \in ElementPtrs :
        /\ e # par
        /\ element_parent(heap, e) = Some(ParentOfChild("Element", par))
        /\ ChainAcyclic(e)
        /\ Binds(e, "q") /\ ~Binds(e, "p")
        /\ Binds(par, "q") /\ Binds(par, "p") /\ Binds(par, XML_NS_PREFIX)
        /\ LocalBinding(e, "q") # LocalBinding(par, "q")
        /\ \A order \in Orders :
              element_namespaces_in_scope(heap, e, order).ret
                 = << <<XML_NS_PREFIX, XML_NS_URI>>,
                      <<"q", LocalBinding(e, "q")>>,
                      <<"p", LocalBinding(par, "p")>> >>

\* C16: on an acyclic chain, when some element of the chain rebinds xml to U,
\* element_namespaces_in_scope(E) still reports xml bound to XML_NS_URI and
\* never to U, while element_namespace_uri_for_prefix(E, xml) returns the
\* nearest local binding U; with no local binding of xml the lookup returns
\* what the nearest-binding rule gives, none.
C16_XmlSeedVersusLookup ==
    \A e \in ElementPtrs : ChainAcyclic(e) =>
        /\ \A order \in Orders :
              LET ns == element_namespaces_in_scope(heap, e, order).ret
              IN /\ \E i \in DOMAIN ns : ns[i] = <<XML_NS_PREFIX, XML_NS_URI>>
                 /\ \A i \in DOMAIN ns : ns[i][1] = XML_NS_PREFIX => ns[i][2] = XML_NS_URI
        /\ IF \E i \in DOMAIN Chain(e) : Binds(Chain(e)[i], XML_NS_PREFIX)
           THEN LET near == CHOOSE i \in DOMAIN Chain(e) :
                               /\ Binds(Chain(e)[i], XML_NS_PREFIX)
                               /\ \A j \in 1..(i - 1) : ~Binds(Chain(e)[j], XML_NS_PREFIX)
                IN element_namespace_uri_for_prefix(heap, e, XML_NS_PREFIX)
                      = Returns(Some(LocalBinding(Chain(e)[near], XML_NS_PREFIX)))
           ELSE element_namespace_uri_for_prefix(heap, e, XML_NS_PREFIX) = Returns(None)

\* C16 witness: an element and its Element parent rebind xml to different
\* URIs; the lookup from the element returns the element's own URI, and the
\* sequence emitted for the element holds xml once, with the fixed URI.
C16_Witness ==
    \E e, par \in ElementPtrs :
        /\ e # par
        /\ element_parent(heap, e) = Some(ParentOfChild("Element", par))
        /\ ChainAcyclic(e)
        /\ Binds(e, XML_NS_PREFIX) /\ Binds(par, XML_NS_PREFIX)
        /\ LocalBinding(e, XML_NS_PREFIX) = "U2"
        /\ LocalBinding(par, XML_NS_PREFIX) = "U1"
        /\ element_namespace_uri_for_prefix(heap, e, XML_NS_PREFIX) = Returns(Some("U2"))
        /\ \A order \in Orders :
              element_namespaces_in_scope(heap, e, order).ret[1]
                 = <<XML_NS_PREFIX, XML_NS_URI>>

\* The prefixes the local map of x binds to uri, and the level of the chain of
\* e nearest to e whose map binds some prefix to uri (0 when none does).
PrefixesFor(x, uri) == {p \in Prefixes : Binds(x, p) /\ LocalBinding(x, p) = uri}
NearestLevelFor(e, uri) ==
    LET hits == {i \in DOMAIN Chain(e) : PrefixesFor(Chain(e)[i], uri) # {}}
    IN IF hits = {} THEN 0 ELSE CHOOSE i \in hits : \A j \in hits : i <= j

\* element_prefix_for_namespace_uri(e, ..) returns, and decides at the nearest
\* element binding uri: the preferred prefix if that element binds it to uri,
\* otherwise some prefix that element binds to uri; none iff no element of
\* the chain binds a prefix to uri.
PrefixLookupDecidesAtNearest(e) ==
    \A uri \in URIs, pp \in PreferredPrefixes, order \in Orders :
        LET r == element_prefix_for_namespace_uri(heap, e, uri, pp, order)
            level == NearestLevelFor(e, uri)
        IN /\ ~r.diverges
           /\ r.ret = None <=> level = 0
           /\ level # 0 =>
                 LET here == PrefixesFor(Chain(e)[level], uri)
                 IN /\ r.ret # None
                    /\ r.ret[1] \in here
                    /\ (pp # None /\ pp[1] \in here) => r.ret = pp

\* C17 as stated: for every element, element_prefix_for_namespace_uri walks up
\* and stops at the nearest element binding a prefix to uri, returning the
\* preferred prefix if bound to uri there and otherwise some prefix bound to
\* uri there, and returns none iff no element of the chain binds uri.
C17_PrefixLookupDecidesAtNearest ==
    \A e \in ElementPtrs : PrefixLookupDecidesAtNearest(e)

\* C17 amended: the same, for every element whose chain of Element parents is
\* acyclic.
C17_PrefixLookupDecidesAtNearestOnAcyclic ==
    \A e \in ElementPtrs : ChainAcyclic(e) => PrefixLookupDecidesAtNearest(e)

\* C17 witness: an element binds p and q to U1 and xml to U2, its Element
\* parent binds p to U2. Asked for U1 with q preferred the lookup returns q
\* under every order, and with no preference p under one order and q under
\* another; asked for U2 with p preferred it returns xml, the nearer binding.
C17_Witness ==
    \E e, par \in ElementPtrs :
        /\ e # par
        /\ element_parent(heap, e) = Some(ParentOfChild("Element", par))
        /\ ChainAcyclic(e)
        /\ PrefixesFor(e, "U1") = {"p", "q"}
        /\ PrefixesFor(e, "U2") = {XML_NS_PREFIX}
        /\ PrefixesFor(par, "U2") = {"p"}
        /\ \A order \in Orders :
              /\ element_prefix_for_namespace_uri(heap, e, "U1", Some("q"), order)
                    = Returns(Some("q"))
              /\ element_prefix_for_namespace_uri(heap, e, "U2", Some("p"), order)
                    = Returns(Some(XML_NS_PREFIX))
        /\ \E o1, o2 \in Orders :
              /\ element_prefix_for_namespace_uri(heap, e, "U1", None, o1) = Returns(Some("p"))
              /\ element_prefix_for_namespace_uri(heap, e, "U1", None, o2) = Returns(Some("q"))

\* The element itself and its ancestors: every element reached from e by
\* following Element parents.
AncestorsOrSelf(e) == {Chain(e)[i] : i \in DOMAIN Chain(e)}

\* The linking operations of callers that never append an element to itself
\* or to one of its descendants.
NextNoAncestorAppend ==
    \/ create_root
    \/ \E name \in ElementNames : create_element(name)
    \/ \E text \in TextValues : create_text(text)
    \/ \E text \in TextValues : create_comment(text)
    \/ \E target \in PITargets, value \in PIValues : create_processing_instruction(target, value)
    \/ \E root \in RootPtrs, child \in ChildOfRootArgs : append_root_child(root, child)
    \/ \E parent \in ElementPtrs, child \in ChildOfElementArgs :
          /\ child.variant = "Element" => child.ptr \notin AncestorsOrSelf(parent)
          /\ append_element_child(parent, child)

SpecNoAncestorAppend == Init /\ [][NextNoAncestorAppend]_vars

\* C18: when no append_element_child(parent, c) is made with c the parent
\* itself or an ancestor of parent, the parent relation is acyclic: following
\* Element parents from any element ends at an element whose parent is none
\* or a Root.
C18_ParentRelationAcyclic == \A e \in ElementPtrs : ChainAcyclic(e)

\* C18 witness: an element was appended under another element that is the
\* child of a root, next to a node of another kind: a chain of two elements
\* ending at the root.
C18_Witness ==
    \E e, par \in ElementPtrs, r \in RootPtrs :
        /\ e # par
        /\ element_parent(heap, e) = Some(ParentOfChild("Element", par))
        /\ element_parent(heap, par) = Some(ParentOfChild("Root", r))
        /\ Len(element_children(heap, par)) >= 2
        /\ Occurs(element_children(heap, par), ChildOfElement("Element", e)) = 1


\* Every Storage operation, on the nodes of a small document that is being
\* linked: one node of each kind, the Element, Comment and ProcessingInstruction
\* under the root, the Text under the element, the attribute on the element.
TextArgsOfElement == {ChildOfElement("Text", n) : n \in TextPtrs}

NextStorage ==
    \/ create_root
    \/ \E name \in ElementNames : Len(elements) < StorageNodes /\ create_element(name)
    \/ \E name \in AttributeNames, value \in AttributeValues :
          Len(attributes) < StorageNodes /\ create_attribute(name, value)
    \/ \E text \in TextValues : create_text(text)
    \/ \E text \in TextValues : create_comment(text)
    \/ \E target \in PITargets, value \in PIValues : create_processing_instruction(target, value)
    \/ \E element \in ElementPtrs, name \in NewElementNames : element_set_name(element, name)
    \/ \E element \in ElementPtrs :
          element_register_prefix(element, XML_NS_PREFIX, XML_NS_URI)
    \/ \E element \in ElementPtrs, prefix \in NewPreferredPrefixes :
          element_set_preferred_prefix(element, prefix)
    \/ \E attr \in AttributePtrs, prefix \in NewPreferredPrefixes :
          attribute_set_preferred_prefix(attr, prefix)
    \/ \E text \in TextPtrs, new_text \in NewTextValues : text_set_text(text, new_text)
    \/ \E comment \in CommentPtrs, new_text \in NewTextValues :
          comment_set_text(comment, new_text)
    \/ \E pi \in PIPtrs, new_target \in NewPITargets :
          processing_instruction_set_target(pi, new_target)
    \/ \E pi \in PIPtrs, new_value \in NewPIValues :
          processing_instruction_set_value(pi, new_value)
    \/ \E root \in RootPtrs, child \in ChildOfRootArgs : append_root_child(root, child)
    \/ \E parent \in ElementPtrs, child \in TextArgsOfElement :
          append_element_child(parent, child)
    \/ \E parent \in ElementPtrs, attr \in AttributePtrs : set_attribute(parent, attr)

SpecStorage == Init /\ [][NextStorage]_vars

\* The links of every node: parent field, children list and attributes list.
Links(h) ==
    [roots |-> [i \in DOMAIN h.roots |-> h.roots[i].children],
     elements |-> [i \in DOMAIN h.elements |->
                      <<h.elements[i].parent, h.elements[i].children,
                        h.elements[i].attributes>>],
     attributes |-> [i \in DOMAIN h.attributes |-> h.attributes[i].parent],
     texts |-> [i \in DOMAIN h.texts |-> h.texts[i].parent],
     comments |-> [i \in DOMAIN h.comments |-> h.comments[i].parent],
     processing_instructions |->
        [i \in DOMAIN h.processing_instructions |-> h.processing_instructions[i].parent]]

\* The nodes of an arena before the step are there after it, links unchanged.
LinksKept(old, new) ==
    /\ Len(new) >= Len(old)
    /\ \A i \in DOMAIN old : new[i] = old[i]

\* A step of one of the create_* operations, and of any Storage operation.
CreateStep ==
    \/ create_root
    \/ \E name \in ElementNames : create_element(name)
    \/ \E name \in AttributeNames, value \in AttributeValues : create_attribute(name, value)
    \/ \E text \in TextValues : create_text(text)
    \/ \E text \in TextValues : create_comment(text)
    \/ \E target \in PITargets, value \in PIValues : create_processing_instruction(target, value)
StorageStep ==
    \/ CreateStep
    \/ \E element \in ElementPtrs, name \in NewElementNames : element_set_name(element, name)
    \/ \E element \in ElementPtrs, prefix \in Prefixes, uri \in URIs \cup {XML_NS_URI} :
          element_register_prefix(element, prefix, uri)
    \/ \E element \in ElementPtrs, prefix \in NewPreferredPrefixes :
          element_set_preferred_prefix(element, prefix)
    \/ \E attr \in AttributePtrs, prefix \in NewPreferredPrefixes :
          attribute_set_preferred_prefix(attr, prefix)
    \/ \E text \in TextPtrs, new_text \in NewTextValues : text_set_text(text, new_text)
    \/ \E comment \in CommentPtrs, new_text \in NewTextValues :
          comment_set_text(comment, new_text)
    \/ \E pi \in PIPtrs, new_target \in NewPITargets :
          processing_instruction_set_target(pi, new_target)
    \/ \E pi \in PIPtrs, new_value \in NewPIValues :
          processing_instruction_set_value(pi, new_value)

\* The nodes allocated by the step have no parent and, where they have the
\* lists, no children and no attributes.
NewNodesUnlinked ==
    /\ \A i \in DOMAIN roots' \ DOMAIN roots : root_children(heap', i) = <<>>
    /\ \A i \in DOMAIN elements' \ DOMAIN elements :
          /\ element_parent(heap', i) = None
          /\ element_children(heap', i) = <<>>
          /\ element_attributes(heap', i) = <<>>
    /\ \A i \in DOMAIN attributes' \ DOMAIN attributes : attribute_parent(heap', i) = None
    /\ \A i \in DOMAIN texts' \ DOMAIN texts : text_parent(heap', i) = None
    /\ \A i \in DOMAIN comments' \ DOMAIN comments : comment_parent(heap', i) = None
    /\ \A i \in DOMAIN processing_instructions' \ DOMAIN processing_instructions :
          processing_instruction_parent(heap', i) = None

\* C19: every Storage operation (create_*, element_set_name,
\* element_register_prefix, the set_preferred_prefix of elements and
\* attributes, text_set_text, comment_set_text, processing_instruction_set_target
\* and _set_value) leaves the parent field, children list and attributes list
\* of every existing node unchanged, and each create_* returns one new node
\* with no parent and empty children and attributes lists.
C19_StorageKeepsLinks ==
    [][/\ StorageStep =>
             /\ LinksKept(Links(heap).roots, Links(heap').roots)
             /\ LinksKept(Links(heap).elements, Links(heap').elements)
             /\ LinksKept(Links(heap).attributes, Links(heap').attributes)
             /\ LinksKept(Links(heap).texts, Links(heap').texts)
             /\ LinksKept(Links(heap).comments, Links(heap').comments)
             /\ LinksKept(Links(heap).processing_instructions,
                          Links(heap').processing_instructions)
       /\ CreateStep =>
             /\ Len(roots') + Len(elements') + Len(attributes') + Len(texts')
                   + Len(comments') + Len(processing_instructions')
                = Len(roots) + Len(elements) + Len(attributes) + Len(texts)
                   + Len(comments) + Len(processing_instructions) + 1
             /\ NewNodesUnlinked]_vars

\* C19 witness: an element that is the child of a root after a Comment, lists
\* a Text as child and an attribute, and has been renamed, given a preferred
\* prefix and a prefix binding; the Text, the Comment and the attribute have
\* been rewritten too, and all are still linked.
C19_Witness ==
    \E e \in ElementPtrs, r \in RootPtrs, t \in TextPtrs, c \in CommentPtrs,
       a \in AttributePtrs :
        /\ element_parent(heap, e) = Some(ParentOfChild("Root", r))
        /\ root_children(heap, r) = <<ChildOfRoot("Comment", c), ChildOfRoot("Element", e)>>
        /\ element_children(heap, e) = <<ChildOfElement("Text", t)>>
        /\ element_attributes(heap, e) = <<a>>
        /\ text_parent(heap, t) = Some(e)
        /\ attribute_parent(heap, a) = Some(e)
        /\ as_qname(elements[e].name) \in NewElementNames
        /\ elements[e].preferred_prefix = Some(intern("p"))
        /\ DOMAIN elements[e].prefix_to_namespace # {}
        /\ as_slice(texts[t].text) \in NewTextValues
        /\ as_slice(comments[c].text) \in NewTextValues
        /\ attributes[a].preferred_prefix = Some(intern("p"))

\* The linking operations on a graph whose elements can list an attribute.
NextLink ==
    \/ create_root
    \/ \E name \in ElementNames : create_element(name)
    \/ \E name \in AttributeNames, value \in AttributeValues :
          Len(attributes) < NumLinkedAttributes /\ create_attribute(name, value)
    \/ \E text \in TextValues : create_text(text)
    \/ \E text \in TextValues : create_comment(text)
    \/ \E target \in PITargets, value \in PIValues : create_processing_instruction(target, value)
    \/ \E root \in RootPtrs, child \in ChildOfRootArgs : append_root_child(root, child)
    \/ \E parent \in ElementPtrs, child \in ChildOfElementArgs : append_element_child(parent, child)
    \/ \E parent \in ElementPtrs, attr \in AttributePtrs : set_attribute(parent, attr)

SpecLink == Init /\ [][NextLink]_vars

\* What an append of c under new_parent may change besides c and new_parent:
\* the previous parent of c and, for an Element appended to a root, the
\* Elements the root listed. Everything else keeps its children list and its
\* parent field; the previous parent, when it is not new_parent, keeps its
\* children list but for c; no attributes list changes.
AppendFrame(new_parent, c, displaced) ==
    LET prev == NodeParent(heap, c)
        exempt == {Handle(c), <<new_parent.variant, new_parent.ptr>>}
                     \cup {<<prev[i].variant, prev[i].ptr>> : i \in DOMAIN prev}
                     \cup {<<"Element", e>> : e \in displaced}
    IN /\ (prev # None /\ prev[1] # new_parent) =>
              ChildrenOf(heap', prev[1]) = Without(ChildrenOf(heap, prev[1]), c)
       /\ \A q \in ParentNodes :
              <<q.variant, q.ptr>> \notin exempt =>
                  ChildrenOf(heap', q) = ChildrenOf(heap, q)
       /\ \A n \in ChildNodes :
              Handle(n) \notin exempt => NodeParent(heap', n) = NodeParent(heap, n)
       /\ \A e \in ElementPtrs : element_attributes(heap', e) = element_attributes(heap, e)

\* C20: when append_element_child or append_root_child moves c away from a
\* previous parent that is not the new parent, the previous parent's children
\* list becomes its previous list without c, the others in order; the
\* children lists and parent fields of all nodes other than c, the previous
\* parent, the new parent and (for an Element appended to the root) the
\* displaced root Element are unchanged; no attributes list changes.
C20_AppendFrame ==
    [][/\ \A parent \in ElementPtrs, c \in ChildOfElementArgs :
             append_element_child(parent, c) =>
                 AppendFrame(ParentOfChild("Element", parent), c, {})
       /\ \A root \in RootPtrs, c \in ChildOfRootArgs :
             append_root_child(root, c) =>
                 AppendFrame(ParentOfChild("Root", root), c,
                             IF is_element(c) THEN RootElements(heap, root) \ {c.ptr} ELSE {})]_vars

\* C20 witness: after the appends, an element displaced from the root still
\* lists a Comment and a ProcessingInstruction and an attribute, the Element
\* that displaced it is the root's only child and lists the Text.
C20_Witness ==
    \E r \in RootPtrs, e1, e2 \in ElementPtrs, a \in AttributePtrs :
        /\ e1 # e2
        /\ root_children(heap, r) = <<ChildOfRoot("Element", e2)>>
        /\ element_parent(heap, e1) = Some(ParentOfChild("Root", r))
        /\ Len(element_children(heap, e1)) = 2
        /\ \A i \in DOMAIN element_children(heap, e1) :
              element_children(heap, e1)[i].variant \in {"Comment", "ProcessingInstruction"}
        /\ Len(element_children(heap, e2)) = 1
        /\ element_children(heap, e2)[1].variant = "Text"
        /\ element_attributes(heap, e1) = <<a>>

\* C21: over all Root and Element children lists taken together (attributes
\* lists left out) each node handle occurs at most once, and the owner of the
\* list it occurs in is the node's parent field; self-appends and appends of
\* ancestors included.
C21_ChildListedOnceByItsParent ==
    \A c \in ChildNodes :
        LET listings == {<<p, i>> \in ParentNodes \X (1..(Len(elements) + Len(texts)
                                        + Len(comments) + Len(processing_instructions))) :
                            /\ i \in DOMAIN ChildrenOf(heap, p)
                            /\ Handle(ChildrenOf(heap, p)[i]) = Handle(c)}
        IN /\ Cardinality(listings) <= 1
           /\ \A l \in listings : NodeParent(heap, c) = Some(l[1])

\* C21 witness: an element that was appended to itself lists itself once,
\* after two children of other kinds, and is its own parent, while the root
\* lists the other element.
C21_Witness ==
    \E e, e2 \in ElementPtrs, r \in RootPtrs :
        /\ e # e2
        /\ Len(element_children(heap, e)) = 3
        /\ element_children(heap, e)[3] = ChildOfElement("Element", e)
        /\ element_parent(heap, e) = Some(ParentOfChild("Element", e))
        /\ root_children(heap, r) = <<ChildOfRoot("Element", e2)>>

\* C22: on an acyclic chain, for every prefix p other than xml and every URI
\* u, element_namespaces_in_scope(E) emits the pair (p, u) if and only if
\* element_namespace_uri_for_prefix(E, p) returns u.
C22_ViewsAgreeOffXml ==
    \A e \in ElementPtrs : ChainAcyclic(e) =>
        \A p \in Prefixes \ {XML_NS_PREFIX}, u \in URIs \cup {XML_NS_URI}, order \in Orders :
            LET ns == element_namespaces_in_scope(heap, e, order).ret
            IN (\E i \in DOMAIN ns : ns[i] = <<p, u>>)
                  <=> element_namespace_uri_for_prefix(heap, e, p) = Returns(Some(u))

\* C22 witness: an element binds p to U2 and its Element parent binds p to U1
\* and q to U1; both views give p as U2 and q as U1 for the element.
C22_Witness ==
    \E e, par \in ElementPtrs :
        /\ e # par
        /\ element_parent(heap, e) = Some(ParentOfChild("Element", par))
        /\ ChainAcyclic(e)
        /\ LocalBindings(e) = {<<"p", "U2">>}
        /\ LocalBindings(par) = {<<"p", "U1">>, <<"q", "U1">>}
        /\ element_namespace_uri_for_prefix(heap, e, "p") = Returns(Some("U2"))
        /\ element_namespace_uri_for_prefix(heap, e, "q") = Returns(Some("U1"))
        /\ \A order \in Orders :
              element_namespaces_in_scope(heap, e, order).ret
                 = << <<XML_NS_PREFIX, XML_NS_URI>>, <<"p", "U2">>, <<"q", "U1">> >>

\* C23: whenever element_prefix_for_namespace_uri(E, u, preferred) returns a
\* prefix p, element_namespace_uri_for_prefix(E, p) returns u: the prefix
\* returned is not shadowed by a nearer binding of p to another URI.
C23_PrefixLookupRoundTrips ==
    \A e \in ElementPtrs, u \in URIs, pp \in PreferredPrefixes, order \in Orders :
        LET r == element_prefix_for_namespace_uri(heap, e, u, pp, order)
        IN (~r.diverges /\ r.ret # None) =>
               element_namespace_uri_for_prefix(heap, e, r.ret[1]) = Returns(Some(u))

====
